---- MODULE Spec2Model ----
(***************************************************************************)
(* Session and delegated-authorization layer of the restaurant BFF:        *)
(* GeminiService (session map, chat requests, OAuth callback, idle sweep)   *)
(* and AuthorizationCodeOAuthProvider (per-session credential provider).    *)
(*                                                                         *)
(* Every `await` on I/O (tool handshake, token exchange, completion         *)
(* engine) is a suspension point: the code before it and the code after it  *)
(* are separate atomic actions, and requests interleave at these points.    *)
(* The MCP SDK transport, the authorization server and the completion       *)
(* engine are the environment: their outcomes are chosen with \E.           *)
(***************************************************************************)
EXTENDS Integers, FiniteSets, Sequences, TLC

\* ---------------------------------------------------------------- bounds
MaxRequests == 3
MaxInFlight == 2
MaxTicks == 1
MaxLifecycleRequests == 2
MaxCallbackRequests == 2
MaxAgentRequests == 2
MaxAcquisitions == 2
MaxTokensCalls == 2
MaxSaveTokensCalls == 1
MaxMcpRequests == 3
MaxBffRequests == 2
MaxBffClock == 70000

\* ------------------------------------------------------ program constants
SESSION_TIMEOUT_MS == 24 * 60 * 60 * 1000
CLEANUP_INTERVAL_MS == 30 * 60 * 1000

UNAUTHORIZED == {"unauthorized", "401", "authentication required", "invalid token", "token expired"}
OAUTH_RELATED == {"auth", "unauthorized", "401"}
GEMINI_OVERLOAD == {"overloaded", "503", "unavailable", "service unavailable", "resource exhausted"}
RATE_LIMIT == {"rate limit", "429", "quota", "too many requests"}
BAD_REQUEST == {"400", "bad request", "invalid request"}

\* ------------------------------------------------------------ value sets
SessionIds == {"s1", "s2"}
NoState == ""
Requests == 1..MaxRequests
Absent == -1

\* Verifiers generated by the transport's auth layer: one per connection
\* attempt of a request (a request makes at most two attempts).
VerifierOf(r, k) == 2 * (r - 1) + k
Verifiers == 1..(2 * MaxRequests)

\* PKCE S256 transform of a verifier (an injective digest, not the identity).
S256(v) == 1000 + 7 * v

NoUrl == [challenge |-> 0, state |-> NoState]
NoTokens == [access_token |-> 0, expires_in |-> Absent]
NoChat == [id |-> 0, tools |-> 0]
NoSession == [present |-> FALSE, session |-> NoChat, client |-> 0,
              oauthProvider |-> 0, lastActivity |-> 0]
\* (savedAt: the time of the saveTokens call that stored the tokens; the
\* provider keeps no such field, the model records it as history.)
NoProvider == [tokens |-> NoTokens, codeVerifier |-> 0,
               pendingAuthorizationUrl |-> NoUrl, sessionId |-> NoState,
               savedAt |-> 0]
NoClient == [connected |-> FALSE, closed |-> 0]
NoReply == [kind |-> "none", text |-> "", authorizationRequired |-> FALSE,
            authorizationUrl |-> NoUrl, success |-> FALSE, error |-> "",
            details |-> "", message |-> ""]
\* A request: its parameters (sid, code, cbError, cbDescription), the locals
\* of its handler (sd, prov, client, verifier), what it has done so far
\* (exchanges: token requests sent; actor_token: the actor_token its token
\* request carried, 0 for none; error: the message of the error it caught;
\* stale: it forwards through a chat instance that had raised an
\* authorization error before the request arrived) and its reply.
NoRequest == [id |-> 0, kind |-> "none", pc |-> "idle", sid |-> NoState, sd |-> NoSession,
              prov |-> 0, client |-> 0, code |-> 0, cbError |-> "", cbDescription |-> "",
              verifier |-> 0, error |-> {}, exchanges |-> 0, stale |-> FALSE,
              actor_token |-> 0, reply |-> NoReply]

\* Values of expires_in a token response can carry.
ExpiresInValues == {Absent, 3600}

VARIABLES
    oauthConfigured,   \* oauthConfig.clientId is set (process environment)
    mcpRequiresAuth,   \* the tool server answers 401 to unauthenticated clients
    chatSessions,      \* GeminiService.chatSessions
    providers,         \* heap of AuthorizationCodeOAuthProvider objects
    clients,           \* heap of CustomClient objects
    req,               \* in-flight HTTP requests (locals and position)
    nreq,              \* number of requests started so far
    now,               \* Date.now()
    ticks,             \* number of clock advances so far
    cleanupInterval,   \* GeminiService.cleanupInterval is set
    authCodes,         \* authorization server: state of each issued code
    handedOut,         \* authorization URLs returned to users in replies
    last,              \* the request returning in this step, with its reply
    closedNow,         \* clients on which close() is invoked in this step
    regressed,         \* live chat instances that raised an authorization error
    agentAuthProvider, \* GeminiService.agentAuthProvider (an AgentOAuthProvider)
    acquisitions,      \* position of each _acquireAgentTokens() call
    tokensCalls,       \* number of calls to agentAuthProvider.tokens() so far
    saveTokensCalls,   \* number of calls to its saveTokens() by a holder so far
    running,           \* the server process is alive
    currentSub,        \* tool server: module variable currentSub ("": undefined)
    currentAct,        \* tool server: module variable currentAct ("": undefined)
    ORDERS,            \* tool server: the orders placed
    mcpRequests,       \* tool server: requests to /mcp (token claims, position, result)
    bffRequests,       \* BFF: requests to /api/... (path, timers, response)
    bffClock           \* BFF: milliseconds since the server started

vars == <<oauthConfigured, mcpRequiresAuth, chatSessions, providers, clients,
          req, nreq, now, ticks, cleanupInterval, authCodes, handedOut, last,
          closedNow, regressed, agentAuthProvider, acquisitions, tokensCalls,
          saveTokensCalls,
          running, currentSub, currentAct, ORDERS, mcpRequests, bffRequests,
          bffClock>>

config == <<oauthConfigured, mcpRequiresAuth>>
agentVars == <<agentAuthProvider, acquisitions, tokensCalls, saveTokensCalls, running>>
mcpVars == <<currentSub, currentAct, ORDERS, mcpRequests>>
bffVars == <<bffRequests, bffClock>>

\* ---------------------------------------------------------- error messages
\* An error message is the set of phrases it is made of; a keyword is
\* included in a message when it is a substring of one of its phrases.
ProperSubstrings == {<<"unauthorized", "auth">>, <<"authentication required", "auth">>,
                     <<"service unavailable", "unavailable">>}
Includes(msg, kw) == \E phrase \in msg : phrase = kw \/ <<phrase, kw>> \in ProperSubstrings

MsgConnectFailed == {"failed to establish mcp connection"}
\* Errors the completion engine (or a tool call made through it) can raise.
EngineErrors == {{"401", "unauthorized"}, {"token expired"}, {"auth"},
                 {"503"}, {"429"}, {"400"}, {"boom"}}

classifyError(msg) ==
    [isUnauthorized |-> \E kw \in UNAUTHORIZED : Includes(msg, kw),
     isOAuthRelated |-> \E kw \in OAUTH_RELATED : Includes(msg, kw),
     isGeminiOverload |-> \E kw \in GEMINI_OVERLOAD : Includes(msg, kw),
     isRateLimit |-> \E kw \in RATE_LIMIT : Includes(msg, kw),
     isBadRequest |-> \E kw \in BAD_REQUEST : Includes(msg, kw)]

\* ------------------------------------------- AuthorizationCodeOAuthProvider
hasValidTokens(p) ==
    IF p.tokens = NoTokens THEN FALSE
    ELSE IF p.tokens.access_token # 0
         THEN IF p.tokens.expires_in # Absent /\ p.tokens.expires_in # 0
              THEN p.tokens.expires_in > 0
              ELSE TRUE
         ELSE FALSE

saveTokens(p, t) == [p EXCEPT !.tokens = t,
                              !.savedAt = IF t = NoTokens THEN 0 ELSE now]
saveCodeVerifier(p, v) == [p EXCEPT !.codeVerifier = v]
redirectToAuthorization(p, url) == [p EXCEPT !.pendingAuthorizationUrl = url]
clearPendingAuthorizationUrl(p) == [p EXCEPT !.pendingAuthorizationUrl = NoUrl]
state(p) == p.sessionId

\* What the transport's auth layer does to the provider when the server
\* demands interactive authorization: a fresh PKCE verifier is saved and the
\* authorization URL (carrying its challenge and the provider's state) is
\* recorded.
StartAuthorization(p, v) ==
    redirectToAuthorization(saveCodeVerifier(p, v),
                            [challenge |-> S256(v), state |-> state(p)])

\* Outcomes of client.connect(transport) for a provider id (0: no provider).
ConnectOutcomes(pid) ==
    {"net"}
    \cup (IF ~mcpRequiresAuth \/ (pid # 0 /\ providers[pid].tokens # NoTokens)
          THEN {"ok"} ELSE {})
    \cup (IF mcpRequiresAuth /\ pid # 0 THEN {"auth"} ELSE {})

\* The provider heap after a connection attempt with outcome o.
AfterConnect(pid, o, v) ==
    IF o = "auth" /\ pid # 0
    THEN [providers EXCEPT ![pid] = StartAuthorization(providers[pid], v)]
    ELSE providers

\* --------------------------------------------------------------- replies
TextReply(t) == [NoReply EXCEPT !.kind = "text", !.text = t]
AuthPrompt(t, url) == [NoReply EXCEPT !.kind = "auth_prompt", !.text = t,
                        !.authorizationRequired = TRUE, !.authorizationUrl = url]
Thrown(m) == [NoReply EXCEPT !.kind = "exception", !.message = m]
CallbackFailure(e, d, m) == [NoReply EXCEPT !.kind = "callback", !.success = FALSE,
                             !.error = e, !.details = d, !.message = m]
CallbackSuccess == [NoReply EXCEPT !.kind = "callback", !.success = TRUE,
                    !.message = "Authorization code received successfully"]

\* handleAuthenticationError(sessionData, clearTokens): the reply and the
\* provider heap it leaves.
handleAuthenticationError(sd, clearTokens, provs) ==
    LET pid == sd.oauthProvider
        provs1 == IF pid # 0 /\ clearTokens
                  THEN [provs EXCEPT ![pid] = saveTokens(provs[pid], NoTokens)]
                  ELSE provs
        authUrl == IF pid # 0 THEN provs1[pid].pendingAuthorizationUrl ELSE NoUrl
    IN [reply |-> IF authUrl # NoUrl
                  THEN AuthPrompt("AUTHENTICATION_PROMPT", authUrl)
                  ELSE AuthPrompt("Authentication required. Please authenticate to continue.", NoUrl),
        providers |-> provs1]

\* handleChatError(error, sessionData)
handleChatError(msg, sd, provs) ==
    LET errorTypes == classifyError(msg) IN
    IF errorTypes.isUnauthorized
    THEN handleAuthenticationError(sd, TRUE, provs)
    ELSE IF errorTypes.isOAuthRelated /\ sd.oauthProvider # 0 /\ sd.session = NoChat
    THEN handleAuthenticationError(sd, FALSE, provs)
    ELSE IF errorTypes.isGeminiOverload
    THEN [reply |-> Thrown("The AI model is currently overloaded. Please try again in a moment."),
          providers |-> provs]
    ELSE IF errorTypes.isRateLimit
    THEN [reply |-> Thrown("Please wait a moment before sending another message."),
          providers |-> provs]
    ELSE IF errorTypes.isBadRequest
    THEN [reply |-> Thrown("There was an issue processing your message. Please try rephrasing your question."),
          providers |-> provs]
    ELSE [reply |-> Thrown("Chat processing failed"), providers |-> provs]

\* ------------------------------------------------- AgentOAuthProvider
\* Agent tokens as _exchangeAgentCodeForTokens stores them (expires_in 0:
\* the token response carried none; obtained_at Absent: the token object
\* has no such property).
NoAgentTokens == [access_token |-> 0, expires_in |-> 0, obtained_at |-> 0]
\* (savedAt: the time at which the cached tokens were stored; history, the
\* provider has no such field.)
NoAgent == [present |-> FALSE, tokens |-> NoAgentTokens, agentTokenPromise |-> 0,
            savedAt |-> 0, codeVerifier |-> 0, codeChallenge |-> 0]
\* The verifier that _generatePKCE draws in the constructor, and verifiers
\* passed to saveCodeVerifier.
GeneratedAgentVerifier == 900
AgentVerifiers == {901, 902}
\* _generateCodeChallenge(codeVerifier)
generateCodeChallenge(codeVerifier) == S256(codeVerifier)
\* Access tokens that a holder of the provider hands to saveTokens().
SuppliedAgentToken == 600
Acquisitions == 1..MaxAcquisitions
AgentTokenOf(a) == 500 + a
\* Values of expires_in (seconds) the agent's token response can carry.
AgentExpiresIn == {0, 60, 3600}

\* _isTokenValid(this._tokens), preceded by the test `this._tokens &&`
isTokenValid(agent) ==
    /\ agent.tokens # NoAgentTokens
    /\ agent.tokens.access_token # 0
    /\ (agent.tokens.expires_in # 0 =>
          \* undefined + n is NaN, and no number is less than NaN
          /\ agent.tokens.obtained_at # Absent
          /\ now < agent.tokens.obtained_at + agent.tokens.expires_in * 1000 - 60000)

getAgentTokens(agent) == agent.tokens

\* exchangeCodeForTokens: the actor_token of the request body (0: none).
\* completeOAuthFlow passes no agentToken argument.
actorToken(agent) ==
    IF agent.present THEN getAgentTokens(agent).access_token ELSE 0

\* ------------------------------------------------- tool server (/mcp)
McpRequests == 1..MaxMcpRequests
\* sub claims of the access tokens, and the sub of their act claim ("": the
\* token has none)
Subs == {"alice", "bob"}
Acts == {"", "agent"}
Tools == {"initialize", "checkout", "get_my_orders"}
NoMcpRequest == [pc |-> "idle", sub |-> "", act |-> "", tool |-> "", result |-> {}]

\* ------------------------------------------------- BFF request timeouts
BffRequests == 1..MaxBffRequests
\* Request paths, as their segments.
BffPaths == {<<"api", "chat">>, <<"api", "oauth", "callback">>, <<"api", "health">>}
\* app.use(mountPath, createTimeout(timeoutMs)), in registration order
TimeoutMounts == << [mountPath |-> <<"api", "chat">>, timeoutMs |-> 60000],
                    [mountPath |-> <<"api">>, timeoutMs |-> 30000] >>
BffClockStep == 10000
NoBffRequest == [status |-> "idle", path |-> <<>>, arrived |-> 0, timers |-> {},
                 answered |-> 0]

\* app.use(mountPath, ...): the middleware runs for every request whose path
\* begins with the segments of mountPath.
Mounted(mountPath, path) ==
    /\ Len(mountPath) <= Len(path)
    /\ SubSeq(path, 1, Len(mountPath)) = mountPath

\* The deadlines of the timers that the createTimeout middlewares start for
\* a request to path arriving at time t.
createTimeout(path, t) ==
    {t + TimeoutMounts[i].timeoutMs :
        i \in {j \in DOMAIN TimeoutMounts : Mounted(TimeoutMounts[j].mountPath, path)}}

\* --------------------------------------------------------------- initial
\* The constructor has run: initializeService() started the sweep timer and
\* initializeAgentAuthProvider(), which (with OAuth configured) created the
\* agent provider and called tokens() on it, starting the first acquisition.
Init ==
    /\ oauthConfigured \in BOOLEAN
    /\ mcpRequiresAuth \in BOOLEAN
    /\ chatSessions = [s \in SessionIds |-> NoSession]
    /\ providers = [p \in Requests |-> NoProvider]
    /\ clients = [c \in Requests |-> NoClient]
    /\ req = [r \in Requests |-> NoRequest]
    /\ nreq = 0
    /\ now = 0
    /\ ticks = 0
    /\ cleanupInterval = TRUE
    /\ authCodes = [v \in Verifiers |-> "none"]
    /\ handedOut = {}
    /\ last = NoRequest
    /\ closedNow = {}
    /\ regressed = {}
    /\ agentAuthProvider =
          IF oauthConfigured
          THEN [NoAgent EXCEPT !.present = TRUE, !.agentTokenPromise = 1,
                               !.codeVerifier = GeneratedAgentVerifier,
                               !.codeChallenge = generateCodeChallenge(GeneratedAgentVerifier)]
          ELSE NoAgent
    /\ saveTokensCalls = 0
    /\ acquisitions = [a \in Acquisitions |->
                          IF oauthConfigured /\ a = 1 THEN "authorize" ELSE "idle"]
    /\ tokensCalls = IF oauthConfigured THEN 1 ELSE 0
    /\ running = TRUE
    /\ currentSub = ""
    /\ currentAct = ""
    /\ ORDERS = {}
    /\ mcpRequests = [m \in McpRequests |-> NoMcpRequest]
    /\ bffRequests = [b \in BffRequests |-> NoBffRequest]
    /\ bffClock = 0

\* ------------------------------------------------------------- requests
InFlight(r) == req[r].pc \notin {"idle", "done"}
CanStart(r) == /\ nreq = r - 1
               /\ Cardinality({q \in Requests : InFlight(q)}) < MaxInFlight

Done == [NoRequest EXCEPT !.pc = "done"]
\* The request array after request r returns: its locals die.
Return(r) == [req EXCEPT ![r] = Done]
\* What the caller of a returning request sees.
Reply(r, locals, reply) == [locals EXCEPT !.id = r, !.pc = "done", !.reply = reply]

\* Objects that the session map or a running handler still references.
\* Everything else is garbage: the program cannot observe it any more, and
\* the heaps forget it.
LiveProviders == ({chatSessions[s].oauthProvider : s \in SessionIds}
                  \cup {req[r].prov : r \in Requests}) \ {0}
LiveClients == ({chatSessions[s].client : s \in SessionIds}
                \cup {chatSessions[s].session.tools : s \in SessionIds}
                \cup {req[r].client : r \in Requests}
                \cup {req[r].sd.client : r \in Requests}
                \cup {req[r].sd.session.tools : r \in Requests}) \ {0}
LiveChats == ({chatSessions[s].session.id : s \in SessionIds}
              \cup {req[r].sd.session.id : r \in Requests}) \ {0}

\* The end of a step: heaps after the step's updates, garbage forgotten.
\* (Used after chatSessions' and req' are fixed.)
Heaps(provs, cls) ==
    \E liveProviders \in {LiveProviders'}, liveClients \in {LiveClients'} :
       /\ providers' = [p \in Requests |->
                           IF p \in liveProviders THEN provs[p] ELSE NoProvider]
       /\ clients' = [c \in Requests |->
                         IF c \in liveClients THEN cls[c] ELSE NoClient]
Regressed(set) == \E liveChats \in {LiveChats'} : regressed' = set \cap liveChats

NewClient(cls, c) == [cls EXCEPT ![c] = [connected |-> FALSE, closed |-> 0]]
createChatInstance(r, connectedClient) == [id |-> r, tools |-> connectedClient]

\* getChatSession(sessionId): the map after the lookup (lastActivity updated)
getChatSession(sid) ==
    IF chatSessions[sid].present
    THEN [chatSessions EXCEPT ![sid].lastActivity = now]
    ELSE chatSessions

\* A handler's local reference to a session data object.  The objects are
\* never mutated except for lastActivity, which no handler reads through its
\* local reference, so the local copy carries the fields without it.
Local(data) == [data EXCEPT !.lastActivity = 0]

\* runChat, up to its first suspension point.  The POST /api/chat handler
\* runs the same lookup-or-create before calling runChat, with no suspension
\* point between a successful create and runChat's own lookup.
ChatStart(r, sid) ==
    /\ CanStart(r)
    /\ nreq' = r
    /\ chatSessions' = getChatSession(sid)
    /\ LET sd == chatSessions[sid]
           locals == [NoRequest EXCEPT !.kind = "chat", !.sid = sid]
       IN
       IF ~sd.present
       THEN \* createChatSession
            IF oauthConfigured
            THEN \* createOAuthProviderForSession, then getOAuthStatus:
                 \* a new provider has no valid tokens, so the check connects
                 /\ req' = [req EXCEPT ![r] = [locals EXCEPT
                               !.pc = "create_oauth_check", !.prov = r]]
                 /\ Heaps([providers EXCEPT ![r] = [NoProvider EXCEPT !.sessionId = sid]],
                          clients)
            ELSE \* no provider: buildChatSessionResponse
                 /\ req' = [req EXCEPT ![r] = [locals EXCEPT
                               !.pc = "create_connect", !.client = r]]
                 /\ Heaps(providers, NewClient(clients, r))
       ELSE IF sd.session = NoChat
       THEN \* session exists but no chat instance: createMCPClient
            /\ req' = [req EXCEPT ![r] = [locals EXCEPT
                          !.pc = "reconnect", !.sd = Local(sd),
                          !.prov = sd.oauthProvider,
                          !.client = IF sd.client # 0 THEN sd.client ELSE r]]
            /\ Heaps(providers, IF sd.client # 0 THEN clients ELSE NewClient(clients, r))
       ELSE \* sendMessage on the stored chat instance
            /\ req' = [req EXCEPT ![r] = [locals EXCEPT
                          !.pc = "send", !.sd = Local(sd), !.prov = sd.oauthProvider,
                          !.stale = sd.session.id \in regressed]]
            /\ Heaps(providers, clients)
    /\ last' = NoRequest
    /\ closedNow' = {}
    /\ Regressed(regressed)
    /\ UNCHANGED <<config, agentVars, mcpVars, bffVars, now, ticks, cleanupInterval, authCodes, handedOut>>

\* getOAuthStatus reporting that no authorization is required
getOAuthStatus_NeverRequired(o, authUrl) ==
    [required |-> FALSE, authorizationUrl |-> authUrl]

\* getOAuthStatus (for a provider without valid tokens) after its connection
\* attempt ended with outcome o and left authUrl pending on the provider
getOAuthStatus(o, authUrl) ==
    IF o = "ok" THEN [required |-> FALSE, authorizationUrl |-> NoUrl]
    ELSE [required |-> authUrl # NoUrl, authorizationUrl |-> authUrl]

\* createChatSession: getOAuthStatus's connection attempt completes.
\* required: buildOAuthRequiredResponse stores the parked session and the
\* chat handler returns the prompt; otherwise buildChatSessionResponse runs
\* up to createMCPClient's connect.
CreateOAuthCheckDone(r) ==
    /\ req[r].pc = "create_oauth_check"
    /\ \E o \in ConnectOutcomes(req[r].prov) :
         LET provs == AfterConnect(req[r].prov, o, VerifierOf(r, 1))
             authUrl == provs[req[r].prov].pendingAuthorizationUrl
             oauthStatus == getOAuthStatus(o, authUrl)
         IN IF oauthStatus.required
            THEN /\ chatSessions' = [chatSessions EXCEPT ![req[r].sid] =
                        [present |-> TRUE, session |-> NoChat, client |-> r,
                         oauthProvider |-> req[r].prov, lastActivity |-> now]]
                 /\ req' = Return(r)
                 /\ last' = Reply(r, req[r], AuthPrompt("WELCOME_MESSAGE", authUrl))
                 /\ handedOut' = handedOut \cup {authUrl}
                 /\ Heaps(provs, NewClient(clients, r))
            ELSE /\ req' = [req EXCEPT ![r].pc = "create_connect", ![r].client = r]
                 /\ last' = NoRequest
                 /\ UNCHANGED <<chatSessions, handedOut>>
                 /\ Heaps(provs, NewClient(clients, r))
    /\ closedNow' = {}
    /\ Regressed(regressed)
    /\ UNCHANGED <<config, agentVars, mcpVars, bffVars, nreq, now, ticks, cleanupInterval, authCodes>>

\* createMCPClient(client, provider): the client heap and the returned
\* client (0 for undefined) for outcome o
ConnectedClient(c, o) == IF o = "ok" THEN c ELSE 0
AfterConnectClients(c, o) ==
    IF o = "ok" THEN [clients EXCEPT ![c].connected = TRUE] ELSE clients

\* buildChatSessionResponse after createMCPClient, then runChat up to
\* sendMessage
CreateConnectDone(r) ==
    /\ req[r].pc = "create_connect"
    /\ \E o \in ConnectOutcomes(req[r].prov) :
         LET connectedClient == ConnectedClient(req[r].client, o)
             data == [present |-> TRUE,
                      session |-> createChatInstance(r, connectedClient),
                      client |-> connectedClient,
                      oauthProvider |-> req[r].prov,
                      lastActivity |-> now]
         IN /\ chatSessions' = [chatSessions EXCEPT ![req[r].sid] = data]
            /\ req' = [req EXCEPT ![r].pc = "send", ![r].sd = Local(data)]
            /\ Heaps(AfterConnect(req[r].prov, o, VerifierOf(r, 2)),
                     AfterConnectClients(req[r].client, o))
    /\ last' = NoRequest
    /\ closedNow' = {}
    /\ Regressed(regressed)
    /\ UNCHANGED <<config, agentVars, mcpVars, bffVars, nreq, now, ticks, cleanupInterval, authCodes, handedOut>>

\* runChat's catch block around the reconnect: handleChatError on the
\* 'Failed to establish MCP connection' error
FailReconnect(r, provs, cls) ==
    LET res == handleChatError(MsgConnectFailed, req[r].sd, provs)
    IN /\ req' = Return(r)
       /\ last' = Reply(r, req[r], res.reply)
       /\ UNCHANGED <<chatSessions, handedOut>>
       /\ Heaps(res.providers, cls)

\* runChat: createMCPClient for a session without chat instance completes
ReconnectDone(r) ==
    /\ req[r].pc = "reconnect"
    /\ \E o \in ConnectOutcomes(req[r].prov) :
         LET provs == AfterConnect(req[r].prov, o, VerifierOf(r, 1))
             cls == AfterConnectClients(req[r].client, o)
             connectedClient == ConnectedClient(req[r].client, o)
             data == [req[r].sd EXCEPT
                        !.session = createChatInstance(r, connectedClient),
                        !.client = connectedClient,
                        !.lastActivity = now]
         IN IF connectedClient # 0
            THEN /\ chatSessions' = [chatSessions EXCEPT ![req[r].sid] = data]
                 /\ req' = [req EXCEPT ![r].pc = "send", ![r].sd = Local(data)]
                 /\ last' = NoRequest
                 /\ Heaps(provs, cls)
                 /\ UNCHANGED handedOut
            ELSE IF req[r].sd.oauthProvider # 0 /\ ~hasValidTokens(provs[req[r].prov])
            THEN \* getOAuthStatus makes its own connection attempt
                 /\ req' = [req EXCEPT ![r].pc = "reconnect_oauth_check"]
                 /\ last' = NoRequest
                 /\ UNCHANGED <<chatSessions, handedOut>>
                 /\ Heaps(provs, cls)
            ELSE FailReconnect(r, provs, cls)
    /\ closedNow' = {}
    /\ Regressed(regressed)
    /\ UNCHANGED <<config, agentVars, mcpVars, bffVars, nreq, now, ticks, cleanupInterval, authCodes>>

\* runChat: getOAuthStatus after a failed reconnect completes
ReconnectOAuthCheckDone(r) ==
    /\ req[r].pc = "reconnect_oauth_check"
    /\ \E o \in ConnectOutcomes(req[r].prov) :
         LET provs == AfterConnect(req[r].prov, o, VerifierOf(r, 2))
             authUrl == provs[req[r].prov].pendingAuthorizationUrl
         IN IF o # "ok" /\ authUrl # NoUrl
            THEN /\ req' = Return(r)
                 /\ last' = Reply(r, req[r], AuthPrompt("AUTHENTICATION_PROMPT", authUrl))
                 /\ handedOut' = handedOut \cup {authUrl}
                 /\ UNCHANGED chatSessions
                 /\ Heaps(provs, clients)
            ELSE FailReconnect(r, provs, clients)
    /\ closedNow' = {}
    /\ Regressed(regressed)
    /\ UNCHANGED <<config, agentVars, mcpVars, bffVars, nreq, now, ticks, cleanupInterval, authCodes>>

\* runChat: sessionData.session.sendMessage completes
SendDone(r) ==
    /\ req[r].pc = "send"
    /\ req' = Return(r)
    /\ UNCHANGED chatSessions
    /\ \/ /\ last' = Reply(r, req[r], TextReply("response.text"))
          /\ Heaps(providers, clients)
          /\ Regressed(regressed)
          /\ UNCHANGED handedOut
       \/ \E msg \in EngineErrors :
            LET res == handleChatError(msg, req[r].sd, providers)
            IN /\ last' = Reply(r, [req[r] EXCEPT !.error = msg], res.reply)
               /\ handedOut' = IF res.reply.authorizationUrl # NoUrl
                               THEN handedOut \cup {res.reply.authorizationUrl}
                               ELSE handedOut
               /\ Heaps(res.providers, clients)
               /\ Regressed(IF classifyError(msg).isUnauthorized
                            THEN regressed \cup {req[r].sd.session.id}
                            ELSE regressed)
    /\ closedNow' = {}
    /\ UNCHANGED <<config, agentVars, mcpVars, bffVars, nreq, now, ticks, cleanupInterval, authCodes>>

\* ------------------------------------------------------- OAuth callback
BogusCode == 99
NoCode == 0
\* Codes a callback can carry: none, one the authorization server never
\* issued, or the code of an authorization URL that was handed to a user
\* (the user consented, or the redirect is replayed).
CallbackCodes == {NoCode, BogusCode}
                 \cup {v \in Verifiers : \E u \in handedOut : u.challenge = S256(v)}
CallbackErrors == {"", "access_denied"}
CallbackDescriptions == {"", "User denied access"}

\* The authorization server issues a code when the user consents at an
\* authorization URL; the redirect that follows is the callback.
Issue(code) ==
    IF code \in Verifiers /\ authCodes[code] = "none"
    THEN [authCodes EXCEPT ![code] = "fresh"]
    ELSE authCodes

\* getOAuthProvider ignoring its sessionId: the provider of the first session
\* that has one
getOAuthProvider_AnySession(sid) ==
    LET ps == {chatSessions[t].oauthProvider : t \in SessionIds} \ {0}
    IN IF ps = {} THEN 0 ELSE CHOOSE p \in ps : \A q \in ps : p <= q

getOAuthProvider(sid) == IF sid \in SessionIds THEN chatSessions[sid].oauthProvider ELSE 0

\* handleOAuthCallbackError without its clearPendingAuthorizationUrl() call
handleOAuthCallbackError_KeepsPendingUrl(error, errorDescription, cbState, oauthProvider) ==
    [providers |-> providers,
     reply |-> CallbackFailure("Authorization failed",
                              IF errorDescription # "" THEN errorDescription ELSE error,
                              "OAuth authorization failed")]

handleOAuthCallbackError(error, errorDescription, cbState, oauthProvider) ==
    [providers |-> IF cbState # NoState /\ oauthProvider # 0
                   THEN [providers EXCEPT ![oauthProvider] =
                            clearPendingAuthorizationUrl(providers[oauthProvider])]
                   ELSE providers,
     reply |-> CallbackFailure("Authorization failed",
                              IF errorDescription # "" THEN errorDescription ELSE error,
                              "OAuth authorization failed")]

\* validateOAuthCallbackParams without its check of the state parameter
validateOAuthCallbackParams_CodeOnly(code, cbState) == code # NoCode

validateOAuthCallbackParams(code, cbState) == code # NoCode /\ cbState # NoState

CallbackLocals(code, cbState, error, errorDescription) ==
    [NoRequest EXCEPT !.kind = "callback", !.sid = cbState, !.code = code,
        !.cbError = error, !.cbDescription = errorDescription,
        !.prov = getOAuthProvider(cbState)]

\* asynchandleOAuthCallback returns without reaching a suspension point
CallbackReturns(code, cbState, error) ==
    \/ error # ""
    \/ ~validateOAuthCallbackParams(code, cbState)
    \/ getOAuthProvider(cbState) = 0

\* asynchandleOAuthCallback when it returns synchronously: the error
\* parameter, the parameter validation, the provider lookup
CallbackReject(r, code, cbState, error, errorDescription) ==
    /\ CanStart(r)
    /\ nreq' = r
    /\ CallbackReturns(code, cbState, error)
    /\ error = "" => errorDescription = ""
    /\ LET locals == CallbackLocals(code, cbState, error, errorDescription)
           res == handleOAuthCallbackError(error, errorDescription, cbState, locals.prov)
       IN
       /\ last' = Reply(r, locals,
              IF error # "" THEN res.reply
              ELSE IF ~validateOAuthCallbackParams(code, cbState)
              THEN CallbackFailure("Missing authorization code or state parameter",
                                   "", "Invalid OAuth callback parameters")
              ELSE CallbackFailure("Invalid session or OAuth provider not found",
                                   "", "Session not found"))
       /\ req' = Return(r)
       /\ UNCHANGED chatSessions
       /\ Heaps(IF error # "" THEN res.providers ELSE providers, clients)
    /\ closedNow' = {}
    /\ Regressed(regressed)
    /\ UNCHANGED <<config, agentVars, mcpVars, bffVars, now, ticks, cleanupInterval, authCodes, handedOut>>

\* asynchandleOAuthCallback up to the token request of exchangeCodeForTokens
\* (completeOAuthFlow: the body carries the code and the provider's current
\* code_verifier)
CallbackStart(r, code, cbState) ==
    /\ CanStart(r)
    /\ ~CallbackReturns(code, cbState, "")
    /\ nreq' = r
    /\ req' = [req EXCEPT ![r] = [CallbackLocals(code, cbState, "", "") EXCEPT
                  !.pc = "exchange",
                  !.verifier = providers[getOAuthProvider(cbState)].codeVerifier,
                  !.actor_token = actorToken(agentAuthProvider),
                  !.exchanges = 1]]
    /\ authCodes' = Issue(code)
    /\ last' = NoRequest
    /\ closedNow' = {}
    /\ UNCHANGED chatSessions
    /\ Heaps(providers, clients)
    /\ Regressed(regressed)
    /\ UNCHANGED <<config, agentVars, mcpVars, bffVars, now, ticks, cleanupInterval, handedOut>>

\* The authorization server redeems a code once, for the verifier whose
\* S256 challenge the authorization request carried.
Redeemable(code, verifier) ==
    /\ code \in Verifiers
    /\ authCodes[code] = "fresh"
    /\ S256(verifier) = S256(code)

\* The catch block of asynchandleOAuthCallback reporting success
CallbackFailed_ReportsSuccess(r, message, provs) ==
    /\ req' = Return(r)
    /\ last' = Reply(r, req[r], CallbackSuccess)
    /\ Heaps(provs, clients)

CallbackFailed(r, message, provs) ==
    /\ req' = Return(r)
    /\ last' = Reply(r, req[r], CallbackFailure("OAuth flow completion failed", "", message))
    /\ Heaps(provs, clients)

\* completeOAuthFlow after the token response, up to createMCPClient's connect
CallbackExchangeDone(r) ==
    /\ req[r].pc = "exchange"
    /\ UNCHANGED chatSessions
    /\ \/ \* non-2xx response: exchangeCodeForTokens throws
          /\ CallbackFailed(r, "Token exchange failed", providers)
          /\ UNCHANGED authCodes
       \/ \* the server redeemed the code but the body does not parse
          /\ Redeemable(req[r].code, req[r].verifier)
          /\ authCodes' = [authCodes EXCEPT ![req[r].code] = "used"]
          /\ CallbackFailed(r, "Invalid token response", providers)
       \/ \* tokens returned: saveTokens, clearPendingAuthorizationUrl
          /\ Redeemable(req[r].code, req[r].verifier)
          /\ authCodes' = [authCodes EXCEPT ![req[r].code] = "used"]
          /\ \E e \in ExpiresInValues :
               LET provs == [providers EXCEPT ![req[r].prov] =
                       clearPendingAuthorizationUrl(
                           saveTokens(providers[req[r].prov],
                                      [access_token |-> req[r].code, expires_in |-> e]))]
                   sessionData == chatSessions[req[r].sid]
               IN IF ~sessionData.present \/ sessionData.client = 0
                  THEN CallbackFailed(r, "Session client not found", provs)
                  ELSE /\ req' = [req EXCEPT ![r].pc = "cb_connect",
                                             ![r].sd = Local(sessionData),
                                             ![r].client = r]
                       /\ last' = NoRequest
                       /\ Heaps(provs, NewClient(clients, r))
    /\ closedNow' = {}
    /\ Regressed(regressed)
    /\ UNCHANGED <<config, agentVars, mcpVars, bffVars, nreq, now, ticks, cleanupInterval, handedOut>>

\* completeOAuthFlow after createMCPClient
CallbackConnectDone(r) ==
    /\ req[r].pc = "cb_connect"
    /\ \E o \in ConnectOutcomes(req[r].prov) :
         LET connectedClient == ConnectedClient(req[r].client, o)
             data == [req[r].sd EXCEPT
                        !.session = createChatInstance(r, connectedClient),
                        !.lastActivity = now]
         IN /\ chatSessions' = [chatSessions EXCEPT ![req[r].sid] = data]
            /\ req' = Return(r)
            /\ last' = Reply(r, req[r], CallbackSuccess)
            /\ Heaps(AfterConnect(req[r].prov, o, VerifierOf(r, 1)),
                     AfterConnectClients(req[r].client, o))
    /\ closedNow' = {}
    /\ Regressed(regressed)
    /\ UNCHANGED <<config, agentVars, mcpVars, bffVars, nreq, now, ticks, cleanupInterval, authCodes, handedOut>>

\* ---------------------------------------------------------------- clock
TickSteps == {SESSION_TIMEOUT_MS, SESSION_TIMEOUT_MS + 1}
Tick(d) ==
    /\ ticks < MaxTicks
    /\ ticks' = ticks + 1
    /\ now' = now + d
    /\ last' = NoRequest
    /\ closedNow' = {}
    /\ UNCHANGED <<config, agentVars, mcpVars, bffVars, chatSessions, providers, clients, req, nreq,
                   cleanupInterval, authCodes, handedOut, regressed>>

\* ------------------------------------------------------- sweep, shutdown
\* The sweep's test with >= in place of >
Expired_AtTimeout(sid) == /\ chatSessions[sid].present
                          /\ now - chatSessions[sid].lastActivity >= SESSION_TIMEOUT_MS

Expired(sid) == /\ chatSessions[sid].present
                /\ now - chatSessions[sid].lastActivity > SESSION_TIMEOUT_MS
close(cl) == [cl EXCEPT !.connected = FALSE, !.closed = @ + 1]

\* performSessionCleanup deleting only the first expired session it finds
performSessionCleanup_StopsAfterFirst ==
    /\ cleanupInterval
    /\ \E sid \in SessionIds : Expired(sid)
    /\ LET first == CHOOSE sid \in SessionIds : Expired(sid)
           closing == {chatSessions[first].client} \ {0}
       IN /\ chatSessions' = [chatSessions EXCEPT ![first] = NoSession]
          /\ closedNow' = closing
          /\ UNCHANGED req
          /\ Heaps(providers, [c \in Requests |->
                            IF c \in closing THEN close(clients[c]) ELSE clients[c]])
    /\ last' = NoRequest
    /\ Regressed(regressed)
    /\ UNCHANGED <<config, agentVars, mcpVars, bffVars, nreq, now, ticks, cleanupInterval, authCodes, handedOut>>

\* performSessionCleanup, run by the interval timer (a sweep that finds
\* nothing expired changes nothing)
performSessionCleanup ==
    /\ cleanupInterval
    /\ \E sid \in SessionIds : Expired(sid)
    /\ LET expiredSessionIds == {sid \in SessionIds : Expired(sid)}
           closing == {chatSessions[sid].client : sid \in expiredSessionIds} \ {0}
       IN /\ chatSessions' = [sid \in SessionIds |->
                            IF sid \in expiredSessionIds THEN NoSession
                            ELSE chatSessions[sid]]
          /\ closedNow' = closing
          /\ UNCHANGED req
          /\ Heaps(providers, [c \in Requests |->
                            IF c \in closing THEN close(clients[c]) ELSE clients[c]])
    /\ last' = NoRequest
    /\ Regressed(regressed)
    /\ UNCHANGED <<config, agentVars, mcpVars, bffVars, nreq, now, ticks, cleanupInterval, authCodes, handedOut>>

destroy ==
    /\ cleanupInterval
    /\ cleanupInterval' = FALSE
    /\ chatSessions' = [sid \in SessionIds |-> NoSession]
    /\ UNCHANGED req
    /\ Heaps(providers, clients)
    /\ last' = NoRequest
    /\ closedNow' = {}
    /\ Regressed(regressed)
    /\ UNCHANGED <<config, agentVars, mcpVars, bffVars, nreq, now, ticks, authCodes, handedOut>>

\* ------------------------------------------------ agent identity tokens
AgentIdle == /\ last' = NoRequest
             /\ closedNow' = {}
             /\ UNCHANGED <<config, mcpVars, bffVars, chatSessions, providers, clients, req, nreq, now,
                            ticks, cleanupInterval, authCodes, handedOut, regressed>>

InFlightAcquisitions == {a \in Acquisitions : acquisitions[a] \in {"authorize", "authn", "token"}}

\* tokens() starting an acquisition whether or not one is in flight
tokens_AlwaysAcquires ==
    /\ agentAuthProvider.present
    /\ tokensCalls < MaxTokensCalls
    /\ tokensCalls' = tokensCalls + 1
    /\ IF isTokenValid(agentAuthProvider)
       THEN UNCHANGED <<agentAuthProvider, acquisitions>>
       ELSE \E a \in Acquisitions :
               /\ acquisitions[a] = "idle"
               /\ \A b \in Acquisitions : b < a => acquisitions[b] # "idle"
               /\ acquisitions' = [acquisitions EXCEPT ![a] = "authorize"]
               /\ agentAuthProvider' = [agentAuthProvider EXCEPT !.agentTokenPromise = a]
    /\ UNCHANGED <<running, saveTokensCalls>>
    /\ AgentIdle

\* AgentOAuthProvider.tokens(), called by any holder of the provider.  A new
\* acquisition runs _acquireAgentTokens up to the fetch of its first step.
tokens ==
    /\ agentAuthProvider.present
    /\ tokensCalls < MaxTokensCalls
    /\ tokensCalls' = tokensCalls + 1
    /\ IF isTokenValid(agentAuthProvider) \/ agentAuthProvider.agentTokenPromise # 0
       THEN UNCHANGED <<agentAuthProvider, acquisitions>>
       ELSE \E a \in Acquisitions :
               /\ acquisitions[a] = "idle"
               /\ \A b \in Acquisitions : b < a => acquisitions[b] # "idle"
               /\ acquisitions' = [acquisitions EXCEPT ![a] = "authorize"]
               /\ agentAuthProvider' = [agentAuthProvider EXCEPT !.agentTokenPromise = a]
    /\ UNCHANGED <<running, saveTokensCalls>>
    /\ AgentIdle

\* AgentOAuthProvider.saveTokens(tokens), called by a holder of the provider
\* with a token response (createAgentIdentityProvider does so with the agent
\* identity tokens it is given): the object carries no obtained_at.
agentSaveTokens ==
    /\ agentAuthProvider.present
    /\ saveTokensCalls < MaxSaveTokensCalls
    /\ saveTokensCalls' = saveTokensCalls + 1
    /\ \E e \in AgentExpiresIn :
         agentAuthProvider' = [agentAuthProvider EXCEPT
            !.tokens = [access_token |-> SuppliedAgentToken, expires_in |-> e,
                        obtained_at |-> Absent],
            !.savedAt = now]
    /\ UNCHANGED <<acquisitions, tokensCalls, running>>
    /\ AgentIdle

\* saveCodeVerifier leaving the stored challenge as it was
agentSaveCodeVerifier_KeepsChallenge(codeVerifier) ==
    /\ agentAuthProvider.present
    /\ agentAuthProvider' = [agentAuthProvider EXCEPT !.codeVerifier = codeVerifier]
    /\ UNCHANGED <<acquisitions, tokensCalls, saveTokensCalls, running>>
    /\ AgentIdle

\* AgentOAuthProvider.saveCodeVerifier(codeVerifier)
agentSaveCodeVerifier(codeVerifier) ==
    /\ agentAuthProvider.present
    /\ agentAuthProvider' = [agentAuthProvider EXCEPT
           !.codeVerifier = codeVerifier,
           !.codeChallenge = generateCodeChallenge(codeVerifier)]
    /\ UNCHANGED <<acquisitions, tokensCalls, saveTokensCalls, running>>
    /\ AgentIdle

\* A step of _acquireAgentTokens throws: the catch block rethrows, the
\* .finally callback clears _agentTokenPromise, and the promise that
\* .finally returned is rejected with no handler attached.  What the process
\* does with an unhandled rejection depends on how it was started
\* (--unhandled-rejections): it terminates (the default) or only warns.
AcquisitionFailed(a) ==
    /\ acquisitions' = [acquisitions EXCEPT ![a] = "failed"]
    /\ agentAuthProvider' = [agentAuthProvider EXCEPT !.agentTokenPromise = 0]
    /\ running' \in BOOLEAN
    /\ UNCHANGED <<tokensCalls, saveTokensCalls>>
    /\ AgentIdle

AcquisitionStep(a, to) ==
    /\ acquisitions' = [acquisitions EXCEPT ![a] = to]
    /\ UNCHANGED <<agentAuthProvider, tokensCalls, saveTokensCalls, running>>
    /\ AgentIdle

\* _initiateAgentAuthorization after its fetch
initiateAgentAuthorizationDone(a) ==
    /\ acquisitions[a] = "authorize"
    /\ \/ AcquisitionStep(a, "authn")
       \/ AcquisitionFailed(a)

\* _authenticateAgent after its fetch
authenticateAgentDone(a) ==
    /\ acquisitions[a] = "authn"
    /\ \/ AcquisitionStep(a, "token")
       \/ AcquisitionFailed(a)

\* _exchangeAgentCodeForTokens after its fetch: obtained_at, saveTokens; then
\* the .finally callback clears _agentTokenPromise.
exchangeAgentCodeForTokensDone(a) ==
    /\ acquisitions[a] = "token"
    /\ \/ \E e \in AgentExpiresIn :
            /\ acquisitions' = [acquisitions EXCEPT ![a] = "done"]
            /\ agentAuthProvider' = [agentAuthProvider EXCEPT
                   !.tokens = [access_token |-> AgentTokenOf(a), expires_in |-> e,
                               obtained_at |-> now],
                   !.savedAt = now,
                   !.agentTokenPromise = 0]
            /\ UNCHANGED <<tokensCalls, saveTokensCalls, running>>
            /\ AgentIdle
       \/ AcquisitionFailed(a)

\* ------------------------------------------------- tool server (/mcp)
McpIdle == /\ last' = NoRequest
           /\ closedNow' = {}
           /\ UNCHANGED <<config, agentVars, bffVars, chatSessions, providers, clients,
                          req, nreq, now, ticks, cleanupInterval, authCodes, handedOut, regressed>>

\* app.all('/mcp'): a POST without a session id creates a transport and
\* awaits server.connect(transport) before the token's claims are read.
McpInitialize(m, sub, act) ==
    /\ mcpRequests[m].pc = "idle"
    /\ \A k \in McpRequests : k < m => mcpRequests[k].pc # "idle"
    /\ mcpRequests' = [mcpRequests EXCEPT ![m] =
           [NoMcpRequest EXCEPT !.pc = "connect", !.sub = sub, !.act = act,
                                !.tool = "initialize"]]
    /\ UNCHANGED <<currentSub, currentAct, ORDERS>>
    /\ McpIdle

\* app.all('/mcp') after server.connect: the claims of the request's token
\* go to the module variables, and transport.handleRequest is awaited.
McpConnected(m) ==
    /\ mcpRequests[m].pc = "connect"
    /\ currentSub' = mcpRequests[m].sub
    /\ currentAct' = mcpRequests[m].act
    /\ mcpRequests' = [mcpRequests EXCEPT ![m].pc = "dispatch"]
    /\ UNCHANGED ORDERS
    /\ McpIdle

\* app.all('/mcp') for a request on an existing transport: the claims of the
\* request's token go to the module variables, and transport.handleRequest
\* is awaited.
McpRoute(m, sub, act, tool) ==
    /\ mcpRequests[m].pc = "idle"
    /\ \A k \in McpRequests : k < m => mcpRequests[k].pc # "idle"
    /\ tool # "initialize"
    /\ currentSub' = sub
    /\ currentAct' = act
    /\ mcpRequests' = [mcpRequests EXCEPT ![m] =
           [NoMcpRequest EXCEPT !.pc = "dispatch", !.sub = sub, !.act = act,
                                !.tool = tool]]
    /\ UNCHANGED ORDERS
    /\ McpIdle

\* The order that the checkout tool records (order_id: the request that
\* placed it stands for the generated id).
NewOrder(m) == [order_id |-> m, user_id |-> currentSub,
                created_by |-> IF currentAct # "" THEN currentAct ELSE currentSub]

\* The CallTool request handler, run by the transport during handleRequest
\* as a promise reaction.  checkout returns an error without recording an
\* order when the session id is unknown or the cart is empty.
McpCallTool(m) ==
    /\ mcpRequests[m].pc = "dispatch"
    /\ \/ /\ mcpRequests[m].tool = "initialize"
          /\ mcpRequests' = [mcpRequests EXCEPT ![m].pc = "done"]
          /\ UNCHANGED ORDERS
       \/ /\ mcpRequests[m].tool = "checkout"
          /\ \E placed \in BOOLEAN :
               /\ ORDERS' = IF placed THEN ORDERS \cup {NewOrder(m)} ELSE ORDERS
               /\ mcpRequests' = [mcpRequests EXCEPT ![m].pc = "done",
                      ![m].result = IF placed THEN {NewOrder(m)} ELSE {}]
       \/ /\ mcpRequests[m].tool = "get_my_orders"
          /\ mcpRequests' = [mcpRequests EXCEPT ![m].pc = "done",
                 ![m].result = {order \in ORDERS : order.user_id = currentSub}]
          /\ UNCHANGED ORDERS
    /\ UNCHANGED <<currentSub, currentAct>>
    /\ McpIdle

\* ------------------------------------------------- BFF request timeouts
BffIdle == /\ last' = NoRequest
           /\ closedNow' = {}
           /\ UNCHANGED <<config, agentVars, mcpVars, chatSessions, providers, clients,
                          req, nreq, now, ticks, cleanupInterval, authCodes, handedOut,
                          regressed>>

\* A request arrives: the timeout middlewares mounted on its path start
\* their timers, and the route handler begins.
BffArrive(b, path) ==
    /\ bffRequests[b].status = "idle"
    /\ \A k \in BffRequests : k < b => bffRequests[k].status # "idle"
    /\ bffRequests' = [bffRequests EXCEPT ![b] =
           [status |-> "pending", path |-> path, arrived |-> bffClock,
            timers |-> createTimeout(path, bffClock), answered |-> 0]]
    /\ UNCHANGED bffClock
    /\ BffIdle

\* The route handler sends its response: 'finish' clears the timers.
BffRespond(b) ==
    /\ bffRequests[b].status = "pending"
    /\ bffRequests' = [bffRequests EXCEPT ![b].status = "answered",
                                          ![b].timers = {},
                                          ![b].answered = bffClock]
    /\ UNCHANGED bffClock
    /\ BffIdle

\* A timer of the request fires: with no response sent yet it sends the
\* 408 'Request timeout' response (whose 'finish' clears the timers).
BffTimeout(b) ==
    /\ \E deadline \in bffRequests[b].timers : deadline <= bffClock
    /\ bffRequests[b].status = "pending"
    /\ bffRequests' = [bffRequests EXCEPT ![b].status = "timeout",
                                          ![b].timers = {},
                                          ![b].answered = bffClock]
    /\ UNCHANGED bffClock
    /\ BffIdle

\* Time passes, unless a timer is due.
BffTick ==
    /\ bffClock < MaxBffClock
    /\ \A b \in BffRequests : \A deadline \in bffRequests[b].timers : bffClock < deadline
    /\ bffClock' = bffClock + BffClockStep
    /\ UNCHANGED bffRequests
    /\ BffIdle

\* -------------------------------------------------------- specification
\* A request arrives and its handler runs up to its first suspension point
\* (or returns).
Arrivals ==
    \/ \E r \in Requests, sid \in SessionIds : ChatStart(r, sid)
    \/ \E r \in Requests, code \in CallbackCodes, cbState \in SessionIds \cup {NoState},
          error \in CallbackErrors, errorDescription \in CallbackDescriptions :
          CallbackReject(r, code, cbState, error, errorDescription)
    \/ \E r \in Requests, code \in CallbackCodes, cbState \in SessionIds :
          CallbackStart(r, code, cbState)

\* A suspended handler resumes and runs up to its next suspension point (or
\* returns).
Resumptions ==
    \/ \E r \in Requests : CreateOAuthCheckDone(r)
    \/ \E r \in Requests : CreateConnectDone(r)
    \/ \E r \in Requests : ReconnectDone(r)
    \/ \E r \in Requests : ReconnectOAuthCheckDone(r)
    \/ \E r \in Requests : SendDone(r)
    \/ \E r \in Requests : CallbackExchangeDone(r)
    \/ \E r \in Requests : CallbackConnectDone(r)

\* Chat requests and OAuth callbacks, interleaved at their suspension points.
Next == Arrivals \/ Resumptions

Spec == Init /\ [][Next]_vars

\* The same machine for a smaller number of requests: every callback path
\* (rejected, failed exchange, completed) against a session that a message
\* created or parked, with the other request free to interleave.
CallbackNext ==
    \/ nreq < MaxCallbackRequests /\ Arrivals
    \/ Resumptions

CallbackSpec == Init /\ [][CallbackNext]_vars

\* The same machine with the clock, the periodic sweep and destroy(), for
\* a smaller number of requests.
LifecycleNext ==
    \/ nreq < MaxLifecycleRequests /\ Arrivals
    \/ Resumptions
    \/ \E d \in TickSteps : Tick(d)
    \/ performSessionCleanup
    \/ destroy

LifecycleSpec == Init /\ [][LifecycleNext]_vars

\* The same machine with the agent identity provider's token acquisition,
\* for a smaller number of requests.  Nothing runs in a terminated process.
AgentNext ==
    \/ running /\ nreq < MaxAgentRequests /\ Arrivals
    \/ running /\ Resumptions
    \/ running /\ tokens
    \/ running /\ agentSaveTokens
    \/ running /\ \E a \in Acquisitions : initiateAgentAuthorizationDone(a)
    \/ running /\ \E a \in Acquisitions : authenticateAgentDone(a)
    \/ running /\ \E a \in Acquisitions : exchangeAgentCodeForTokensDone(a)

AgentSpec == Init /\ [][AgentNext]_vars

\* The agent identity provider on its own: every method that a holder can
\* call on it, and the steps of its token acquisition.
AgentProviderNext ==
    \/ running /\ tokens
    \/ running /\ agentSaveTokens
    \/ running /\ \E codeVerifier \in AgentVerifiers : agentSaveCodeVerifier(codeVerifier)
    \/ running /\ \E a \in Acquisitions : initiateAgentAuthorizationDone(a)
    \/ running /\ \E a \in Acquisitions : authenticateAgentDone(a)
    \/ running /\ \E a \in Acquisitions : exchangeAgentCodeForTokensDone(a)

AgentProviderSpec == Init /\ [][AgentProviderNext]_vars

\* The tool server: concurrent requests to its /mcp endpoint.
McpNext ==
    \/ \E m \in McpRequests, sub \in Subs, act \in Acts : McpInitialize(m, sub, act)
    \/ \E m \in McpRequests : McpConnected(m)
    \/ \E m \in McpRequests, sub \in Subs, act \in Acts, tool \in Tools :
          McpRoute(m, sub, act, tool)
    \/ \E m \in McpRequests : McpCallTool(m)

McpSpec == Init /\ [][McpNext]_vars

\* The BFF's timeout middleware: requests, their timers and the clock.
BffNext ==
    \/ \E b \in BffRequests, path \in BffPaths : BffArrive(b, path)
    \/ \E b \in BffRequests : BffRespond(b)
    \/ \E b \in BffRequests : BffTimeout(b)
    \/ BffTick

BffSpec == Init /\ [][BffNext]_vars

\* ------------------------------------------------------- session states
\* authenticated: the session has a chat instance that messages are
\* forwarded to.  oauth_pending: the session is stored without one (the only
\* code that stores such a session is buildOAuthRequiredResponse, after an
\* authorization URL was obtained).
Authenticated(sid) == chatSessions[sid].present /\ chatSessions[sid].session # NoChat
OAuthPending(sid) == chatSessions[sid].present /\ chatSessions[sid].session = NoChat

\* A request r is inside the creation path of a brand-new session id.
Creating(r) == req[r].kind = "chat" /\ req[r].pc \in {"create_oauth_check", "create_connect"}
\* A request r is inside a connection attempt for a stored session that has
\* no chat instance yet.
Reconnecting(r) == req[r].kind = "chat" /\ req[r].pc \in {"reconnect", "reconnect_oauth_check"}

\* --------------------------------------------------------------- claims

\* C1: with OAuth configured and a tool server that demands authorization, in
\* every reachable state an authenticated session has a credential provider
\* with hasValidTokens() = true and a connected tool client stored on it, and
\* a session in oauth_pending has no connected client.
C1_SessionStateInvariant ==
    (oauthConfigured /\ mcpRequiresAuth) =>
      \A sid \in SessionIds :
        /\ Authenticated(sid) =>
             /\ chatSessions[sid].oauthProvider # 0
             /\ hasValidTokens(providers[chatSessions[sid].oauthProvider])
             /\ chatSessions[sid].client # 0
             /\ clients[chatSessions[sid].client].connected
        /\ OAuthPending(sid) =>
             \/ chatSessions[sid].client = 0
             \/ ~clients[chatSessions[sid].client].connected

\* C2: messages for the same brand-new session id that are handled
\* concurrently make one connection attempt between them: no two requests
\* are inside the creation path of the same id at the same time.
C2_OneCreationPerNewId ==
    \A r, q \in Requests :
      (r # q /\ Creating(r) /\ Creating(q)) => req[r].sid # req[q].sid

\* C3: when the callback for a parked session returns success, the session is
\* authenticated and the fresh connected client (the one its chat instance
\* forwards through) is the client stored on the session.
C3_CallbackStoresConnectedClient ==
    (last.kind = "callback" /\ last.reply.success) =>
      LET sd == chatSessions[last.sid]
      IN /\ sd.present
         /\ sd.session # NoChat
         /\ sd.client # 0
         /\ clients[sd.client].connected
         /\ sd.session.tools = sd.client

\* C4: a connection attempt whose handshake failed without an authorization
\* URL is a connection error: no session is stored as a usable chat session
\* on the strength of it, so every stored chat instance has a connected
\* client to forward tool calls through.
C4_FailedHandshakeStoresNoChat ==
    \A sid \in SessionIds :
      Authenticated(sid) => chatSessions[sid].session.tools # 0

\* C5: when a message on an authenticated session (one that was authorized
\* against a tool server that demands it and forwards through a connected
\* client) returns after an authorization-class error, the provider's tokens
\* are invalid and the session is no longer authenticated.
C5_AuthErrorLeavesAuthenticated ==
    (/\ last.kind = "chat"
     /\ mcpRequiresAuth
     /\ last.sd.session # NoChat
     /\ last.sd.session.tools # 0
     /\ last.prov # 0
     /\ classifyError(last.error).isUnauthorized)
    => /\ ~hasValidTokens(providers[last.prov])
       /\ ~Authenticated(last.sid)

\* C6: a chat instance (and the client it forwards through) that raised an
\* authorization error is never used by a runChat that arrives afterwards.
C6_RegressedInstanceNeverReused ==
    \A r \in Requests : req[r].prov # 0 => ~req[r].stale

\* C7: for a stored session that has no chat instance yet, at most one
\* connection/authorization attempt is in flight at a time.
C7_OneAttemptPerPendingSession ==
    \A r, q \in Requests :
      (r # q /\ Reconnecting(r) /\ Reconnecting(q)) => req[r].sid # req[q].sid

\* C8: when a callback returns because its token exchange failed (non-2xx or
\* malformed response), it reports failure, the provider holds no tokens from
\* it, the session is still in oauth_pending and the provider's pending
\* authorization URL is cleared.
C8_ExchangeFailureClearsPendingUrl ==
    (/\ last.kind = "callback"
     /\ last.exchanges = 1
     /\ last.reply.message \in {"Token exchange failed", "Invalid token response"}
     /\ last.prov \in LiveProviders)
    => /\ ~last.reply.success
       /\ providers[last.prov].pendingAuthorizationUrl = NoUrl

\* C9: a callback that carries an error parameter clears the pending
\* authorization URL of the session named by state, returns a failure whose
\* details are error_description (else error), sends no token request, redeems
\* no code, saves no tokens and leaves the session map as it was (a session
\* in oauth_pending stays there).
C9_ErrorCallback ==
    [][(last'.kind = "callback" /\ last'.cbError # "") =>
         /\ last'.reply.kind = "callback"
         /\ ~last'.reply.success
         /\ last'.reply.error = "Authorization failed"
         /\ last'.reply.details = (IF last'.cbDescription # "" THEN last'.cbDescription
                                   ELSE last'.cbError)
         /\ last'.exchanges = 0
         /\ \A q \in Requests : req'[q].pc = "exchange" => req[q].pc = "exchange"
         /\ authCodes' = authCodes
         /\ \A p \in Requests : providers'[p].tokens = providers[p].tokens
         /\ chatSessions' = chatSessions
         /\ (last'.sid \in SessionIds /\ chatSessions[last'.sid].oauthProvider # 0) =>
              providers'[chatSessions[last'.sid].oauthProvider].pendingAuthorizationUrl = NoUrl
      ]_vars

\* C9 witness: the second request is an error callback for a session that the
\* first request parked in oauth_pending with an authorization URL; the
\* session is still parked, and its provider's pending URL is gone.
C9_Witness ==
    /\ nreq = 2
    /\ last.kind = "callback"
    /\ last.cbError # ""
    /\ last.sid \in SessionIds
    /\ OAuthPending(last.sid)
    /\ chatSessions[last.sid].oauthProvider # 0
    /\ providers[chatSessions[last.sid].oauthProvider].codeVerifier # 0
    /\ providers[chatSessions[last.sid].oauthProvider].pendingAuthorizationUrl = NoUrl
    /\ \E u \in handedOut : u.state = last.sid

\* C10: a callback without error parameter whose code or state is missing
\* returns the parameter-validation failure, and one whose state names no
\* stored session returns the session-not-found failure; in both cases it
\* returns a result (raises nothing), sends no token request, redeems no code
\* and leaves the session map unchanged.
C10_InvalidCallback ==
    [][(/\ last'.kind = "callback"
        /\ last'.cbError = ""
        /\ req[last'.id].pc = "idle"
        /\ \/ last'.code = NoCode
           \/ last'.sid = NoState
           \/ ~chatSessions[last'.sid].present) =>
         /\ last'.reply.kind = "callback"
         /\ ~last'.reply.success
         /\ (last'.code = NoCode \/ last'.sid = NoState) =>
              /\ last'.reply.error = "Missing authorization code or state parameter"
              /\ last'.reply.message = "Invalid OAuth callback parameters"
         /\ (last'.code # NoCode /\ last'.sid # NoState) =>
              /\ last'.reply.error = "Invalid session or OAuth provider not found"
              /\ last'.reply.message = "Session not found"
         /\ last'.exchanges = 0
         /\ \A q \in Requests : req'[q].pc = "exchange" => req[q].pc = "exchange"
         /\ authCodes' = authCodes
         /\ chatSessions' = chatSessions
      ]_vars

\* C10 witness: a callback with a code and a state that names no stored
\* session has returned session-not-found while another session is stored.
C10_Witness ==
    /\ last.kind = "callback"
    /\ last.cbError = ""
    /\ last.code # NoCode
    /\ last.sid \in SessionIds
    /\ ~chatSessions[last.sid].present
    /\ last.reply.message = "Session not found"
    /\ \E other \in SessionIds : chatSessions[other].present

\* C11: against an authorization server that accepts a code once, a second
\* redemption of the same code never reports success.  A code that was
\* redeemed stays redeemed; a callback gets past its token exchange only by
\* redeeming a code that had not been redeemed; and a callback reports success
\* only after it got past its token exchange.  So at most one callback per
\* code reports success, and every other one returns a failure.
C11_NoReplay ==
    [][/\ \A c \in Verifiers : authCodes[c] = "used" => authCodes'[c] = "used"
       /\ \A r \in Requests :
            (req[r].pc = "exchange" /\ req'[r].pc = "cb_connect") =>
              /\ req[r].code \in Verifiers
              /\ authCodes[req[r].code] = "fresh"
              /\ authCodes'[req[r].code] = "used"
       /\ (last'.kind = "callback" /\ last'.reply.success) =>
            /\ last'.id \in Requests
            /\ req[last'.id].pc = "cb_connect"
       /\ (/\ last'.kind = "callback"
           /\ last'.exchanges = 1
           /\ last'.code \in Verifiers
           /\ authCodes[last'.code] = "used"
           /\ last'.id \in Requests
           /\ req[last'.id].pc = "exchange") =>
            /\ ~last'.reply.success
            /\ last'.reply.error = "OAuth flow completion failed"
            /\ last'.reply.message = "Token exchange failed"
      ]_vars

\* C11 witness: a callback for session s with code c has returned the
\* token-exchange failure while s is authenticated with the tokens that an
\* earlier callback obtained for the same code c.
C11_Witness ==
    /\ last.kind = "callback"
    /\ last.exchanges = 1
    /\ ~last.reply.success
    /\ last.reply.message = "Token exchange failed"
    /\ last.code \in Verifiers
    /\ authCodes[last.code] = "used"
    /\ last.sid \in SessionIds
    /\ Authenticated(last.sid)
    /\ chatSessions[last.sid].oauthProvider = last.prov
    /\ providers[last.prov].tokens.access_token = last.code

\* ------------------------------------------------------------ lifecycle
\* The clients a stored session owns: the one in its client field and the
\* one its chat instance forwards tool calls through.
OwnedClients(sid) ==
    {chatSessions[sid].client, chatSessions[sid].session.tools} \ {0}

\* This step is a sweep (it removes a session and leaves the timer set) or
\* destroy() (it clears the timer).
SweepStep ==
    /\ cleanupInterval'
    /\ \E sid \in SessionIds : chatSessions[sid].present /\ ~chatSessions'[sid].present
DestroyStep == cleanupInterval /\ ~cleanupInterval'

\* C12: a sweep removes every session that was idle longer than the timeout,
\* and close() is invoked on every connected client such a session owned,
\* however the client was obtained.
C12_SweepClosesOwnedClients ==
    [][SweepStep =>
         \A sid \in SessionIds :
           Expired(sid) =>
             /\ ~chatSessions'[sid].present
             /\ \A c \in OwnedClients(sid) : clients[c].connected => c \in closedNow'
      ]_vars

\* C13: destroy() clears the timer and empties the session map, and close()
\* is invoked on every connected client a stored session owned; once the
\* timer is cleared no sweep runs.
C13_DestroyClosesOwnedClients ==
    [][/\ DestroyStep =>
            /\ \A sid \in SessionIds : ~chatSessions'[sid].present
            /\ \A sid \in SessionIds :
                 \A c \in OwnedClients(sid) : clients[c].connected => c \in closedNow'
       /\ ~cleanupInterval => (~cleanupInterval' /\ closedNow' = {})
      ]_vars

\* C14: eviction is idempotent.  A sweep removes and closes exactly what
\* belongs to the sessions that are expired when it runs; right after a sweep
\* no stored session is expired, so a second sweep at the same time finds
\* nothing to remove and nothing to close.
C14_EvictionIdempotent ==
    [][SweepStep => \A sid \in SessionIds : ~(Expired(sid))']_vars

\* C14 witness: a sweep has just removed an expired session and closed its
\* client, another session that was active more recently is still stored, and
\* no stored session is expired.
C14_Witness ==
    /\ closedNow # {}
    /\ cleanupInterval
    /\ now > SESSION_TIMEOUT_MS
    /\ \E sid \in SessionIds : ~chatSessions[sid].present
    /\ \E sid \in SessionIds : chatSessions[sid].present /\ ~Expired(sid)

\* C15: at any time at most one agent token acquisition is in flight on the
\* agent provider, and a call to tokens() made while one is in flight starts
\* no other: the stored promise stays the in-flight attempt's.
C15_SingleAcquisitionInFlight ==
    [][/\ Cardinality(InFlightAcquisitions') <= 1
       /\ InFlightAcquisitions' \subseteq {agentAuthProvider'.agentTokenPromise}
       /\ (InFlightAcquisitions # {} /\ tokensCalls' = tokensCalls + 1) =>
            /\ acquisitions' = acquisitions
            /\ agentAuthProvider' = agentAuthProvider
      ]_vars

\* tokens() was called a second time while the first acquisition was in
\* flight, and no second login was started.
C15_Witness ==
    /\ tokensCalls = 2
    /\ InFlightAcquisitions = {1}
    /\ acquisitions[2] = "idle"
    /\ agentAuthProvider.agentTokenPromise = 1

\* The most recent acquisition of agent tokens failed.
LastAcquisitionFailed ==
    \E a \in Acquisitions :
       /\ acquisitions[a] = "failed"
       /\ \A b \in Acquisitions : b > a => acquisitions[b] = "idle"

\* C16: when a step of the agent token acquisition has failed, the service
\* keeps running, no agent tokens are cached, and every user token exchange
\* under way carries no actor_token.
C16_AcquisitionFailureNonFatal ==
    LastAcquisitionFailed =>
       /\ running
       /\ getAgentTokens(agentAuthProvider) = NoAgentTokens
       /\ \A r \in Requests : req[r].pc = "exchange" => req[r].actor_token = 0

\* C17: runChat never propagates an exception: every chat request that
\* returns does so with a reply, not with a thrown error.
C17_RunChatNeverThrows ==
    last.kind = "chat" => last.reply.kind # "exception"

\* C18: every reply that reports authorizationRequired carries a non-empty
\* authorizationUrl.
C18_AuthorizationRequiredHasUrl ==
    last.reply.authorizationRequired => last.reply.authorizationUrl # NoUrl

\* C19: with OAuth configured and a tool server that demands authorization,
\* when the first message for an unknown session id has its connection
\* attempt answered by that demand, the request returns a reply with
\* authorizationRequired and the (non-empty) authorization URL, the message
\* is not forwarded to the completion engine, and the session is stored in
\* oauth_pending.
C19_FirstMessagePromptsAuthorization ==
    [][\A r \in Requests, sid \in SessionIds :
         (/\ oauthConfigured /\ mcpRequiresAuth
          /\ req[r].sid = sid
          /\ req[r].pc = "create_oauth_check" /\ req'[r].pc # "create_oauth_check"
          /\ providers[req[r].prov].tokens = NoTokens
          /\ providers'[req[r].prov].pendingAuthorizationUrl # NoUrl)
         => /\ req'[r].pc = "done"
            /\ last'.id = r /\ last'.kind = "chat" /\ last'.sid = sid
            /\ last'.reply.authorizationRequired
            /\ last'.reply.authorizationUrl # NoUrl
            /\ last'.reply.authorizationUrl = providers'[req[r].prov].pendingAuthorizationUrl
            /\ last'.reply.authorizationUrl.state = sid
            /\ OAuthPending(sid)'
            /\ chatSessions'[sid].oauthProvider = req[r].prov
      ]_vars

\* The first message for an unknown id has returned the welcome prompt with
\* an authorization URL and the session is parked.
C19_Witness ==
    /\ oauthConfigured /\ mcpRequiresAuth
    /\ last.kind = "chat" /\ last.id = 1
    /\ last.reply.authorizationRequired
    /\ last.reply.text = "WELCOME_MESSAGE"
    /\ last.reply.authorizationUrl # NoUrl
    /\ last.sid \in SessionIds
    /\ OAuthPending(last.sid)
    /\ providers[chatSessions[last.sid].oauthProvider].pendingAuthorizationUrl
         = last.reply.authorizationUrl

\* Request r is an OAuth callback that takes a step (arrives, resumes or
\* returns) in this transition, and cbState is its state parameter.
CallbackStepOf(r, cbState) ==
    /\ req'[r] # req[r]
    /\ \/ req[r].kind = "callback" /\ req[r].sid = cbState
       \/ req'[r].kind = "callback" /\ req'[r].sid = cbState
       \/ last'.id = r /\ last'.kind = "callback" /\ last'.sid = cbState

\* C20: a callback with state = s leaves every other session t as it was:
\* its map entry (client, chat instance, provider, lastActivity), its
\* provider's tokens, pending authorization URL and code verifier, and its
\* clients, whatever the outcome of the callback.
C20_CallbackTouchesOnlyItsSession ==
    [][\A r \in Requests, cbState \in SessionIds \cup {NoState} :
         CallbackStepOf(r, cbState) =>
           \A t \in SessionIds \ {cbState} :
              /\ chatSessions'[t] = chatSessions[t]
              /\ chatSessions[t].oauthProvider # 0 =>
                   providers'[chatSessions[t].oauthProvider]
                     = providers[chatSessions[t].oauthProvider]
              /\ \A c \in OwnedClients(t) : clients'[c] = clients[c]
      ]_vars

\* A callback for one session has completed (tokens saved, chat instance
\* stored) while another session is parked with its authorization URL
\* still pending.
C20_Witness ==
    /\ last.kind = "callback" /\ last.reply.success
    /\ last.sid \in SessionIds
    /\ Authenticated(last.sid)
    /\ providers[chatSessions[last.sid].oauthProvider].tokens # NoTokens
    /\ \E t \in SessionIds \ {last.sid} :
         /\ OAuthPending(t)
         /\ chatSessions[t].oauthProvider # 0
         /\ providers[chatSessions[t].oauthProvider].pendingAuthorizationUrl # NoUrl
         /\ providers[chatSessions[t].oauthProvider].tokens = NoTokens

\* C21: get_my_orders returns only orders whose user_id is the sub of the
\* token of the request that invoked it, and checkout records the invoking
\* request's own sub (and act) as the order's user_id (and created_by).
C21_ToolsUseTheInvokersIdentity ==
    /\ \A m \in McpRequests :
         (mcpRequests[m].pc = "done" /\ mcpRequests[m].tool = "get_my_orders") =>
            \A order \in mcpRequests[m].result : order.user_id = mcpRequests[m].sub
    /\ \A order \in ORDERS :
         /\ order.user_id = mcpRequests[order.order_id].sub
         /\ order.created_by = IF mcpRequests[order.order_id].act # ""
                               THEN mcpRequests[order.order_id].act
                               ELSE mcpRequests[order.order_id].sub

\* C22: a request to /api/chat receives the 408 'Request timeout' response
\* only once 60 seconds have passed since it arrived; a request to another
\* /api/ path only once 30 seconds have passed.
C22_ChatTimeoutIsSixtySeconds ==
    \A b \in BffRequests :
       bffRequests[b].status = "timeout" =>
          bffRequests[b].answered - bffRequests[b].arrived >=
             (IF bffRequests[b].path = <<"api", "chat">> THEN 60000 ELSE 30000)

\* C23: no credential provider of a session holds a pending authorization
\* URL and cached tokens at the same time.
C23_PendingUrlExcludesTokens ==
    \A p \in LiveProviders :
       ~(providers[p].tokens # NoTokens /\ providers[p].pendingAuthorizationUrl # NoUrl)

\* The remaining lifetime (ms) of a provider's tokens, measured against the
\* absolute expiry fixed when they were saved.
RemainingLifetime(p) == p.savedAt + p.tokens.expires_in * 1000 - now

\* C24: hasValidTokens() is true exactly when the provider holds an
\* access_token and either expires_in is absent or the remaining lifetime,
\* measured against the absolute expiry computed at save time, is positive.
C24_ValidityUsesAbsoluteExpiry ==
    \A p \in LiveProviders :
       hasValidTokens(providers[p]) <=>
          /\ providers[p].tokens.access_token # 0
          /\ \/ providers[p].tokens.expires_in = Absent
             \/ RemainingLifetime(providers[p]) > 0

\* C25: the agent provider treats its cached tokens as valid (tokens()
\* returns them) exactly when they have an access_token and either carry no
\* expires_in or now < obtainedAt + expires_in * 1000 - 60000, obtainedAt
\* being the time the token set was obtained.
C25_AgentTokenValidity ==
    agentAuthProvider.present =>
       (isTokenValid(agentAuthProvider) <=>
          /\ agentAuthProvider.tokens.access_token # 0
          /\ \/ agentAuthProvider.tokens.expires_in = 0
             \/ now < agentAuthProvider.savedAt
                        + agentAuthProvider.tokens.expires_in * 1000 - 60000)

\* C26: when the user's token exchange asks the agent provider for its token
\* (getAgentTokens) and the cached token is absent or stale, the stale token
\* is not handed over as actor_token, and a refresh is in flight afterwards.
C26_StaleAgentTokenNotHandedOut ==
    [][\A r \in Requests :
         (/\ req[r].pc = "idle" /\ req'[r].pc = "exchange"
          /\ agentAuthProvider.present
          /\ ~isTokenValid(agentAuthProvider))
         => /\ req'[r].actor_token = 0
            /\ agentAuthProvider'.agentTokenPromise # 0
      ]_vars

\* C27: while the sweep timer runs, a session whose idle time is at most the
\* timeout is never removed; and a sweep removes every session whose idle
\* time exceeds the timeout and leaves every other session's fields and
\* clients as they were, closing none of them.
C27_SweepRemovesExactlyTheExpired ==
    [][cleanupInterval' =>
         \A sid \in SessionIds :
            chatSessions[sid].present =>
               /\ now - chatSessions[sid].lastActivity <= SESSION_TIMEOUT_MS
                     => chatSessions'[sid].present
               /\ SweepStep =>
                     IF now - chatSessions[sid].lastActivity > SESSION_TIMEOUT_MS
                     THEN ~chatSessions'[sid].present
                     ELSE /\ chatSessions'[sid] = chatSessions[sid]
                          /\ OwnedClients(sid) \cap closedNow' = {}
                          /\ \A c \in OwnedClients(sid) : clients'[c] = clients[c]
      ]_vars

\* A sweep has just removed a session idle for longer than the timeout and
\* kept one that was used after the clock advanced.
C27_Witness ==
    /\ cleanupInterval
    /\ closedNow # {}
    /\ now = SESSION_TIMEOUT_MS + 1
    /\ \E removed, kept \in SessionIds :
         /\ ~chatSessions[removed].present
         /\ chatSessions[kept].present
         /\ chatSessions[kept].lastActivity = now
         /\ chatSessions[kept].client # 0
         /\ clients[chatSessions[kept].client].closed = 0

\* C28: after construction and after any sequence of saveCodeVerifier calls,
\* the agent provider's code challenge is the S256 transform of its code
\* verifier.
C28_ChallengeMatchesVerifier ==
    agentAuthProvider.present =>
       /\ agentAuthProvider.codeVerifier # 0
       /\ agentAuthProvider.codeChallenge = S256(agentAuthProvider.codeVerifier)

\* saveCodeVerifier has replaced the generated verifier while an acquisition
\* was under way.
C28_Witness ==
    /\ agentAuthProvider.present
    /\ agentAuthProvider.codeVerifier \in AgentVerifiers
    /\ agentAuthProvider.codeChallenge = S256(agentAuthProvider.codeVerifier)
    /\ agentAuthProvider.codeChallenge # S256(GeneratedAgentVerifier)
    /\ acquisitions[1] = "token"

\* C29: a handler that read its session from the map before the session was
\* removed (by the sweep or by destroy()) does not put the session back when
\* it resumes.
C29_RemovedSessionNotReinserted ==
    [][\A r \in Requests, sid \in SessionIds :
         (/\ req[r].sid = sid
          /\ req[r].sd.present
          /\ req'[r] # req[r]
          /\ ~chatSessions[sid].present)
         => ~chatSessions'[sid].present
      ]_vars

\* C30: the code_verifier a callback sends in its token request for session s
\* is the verifier whose challenge was embedded in the authorization URL that
\* was handed out for s and produced the code being redeemed; later messages
\* sent to s do not replace that verifier on the session's provider.
C30_ExchangeSendsTheUrlsVerifier ==
    [][\A r \in Requests :
         (/\ req[r].pc # "exchange"
          /\ req'[r].pc = "exchange"
          /\ req'[r].code \in Verifiers
          /\ \E u \in handedOut : /\ u.state = req'[r].sid
                                  /\ u.challenge = S256(req'[r].code))
         => S256(req'[r].verifier) = S256(req'[r].code)
      ]_vars
====
